---- MODULE Spec2Model ----
(***************************************************************************)
(* Model of mcp/shared/async_operations.py: the server-side async          *)
(* operation registry (ServerAsyncOperationManager over                    *)
(* BaseOperationManager), its records, its expiry rule and its background  *)
(* cleanup task.                                                           *)
(*                                                                         *)
(* Python's Optional[X] is modelled as a tuple of length 0 (None) or 1     *)
(* (<<x>>); time.time() is the variable now, a clock that only advances.   *)
(* The k-th token the generator hands out is written k: the default        *)
(* generator draws 32 random bytes, so a token never repeats an earlier    *)
(* one, and dict insertion order is then the order of the tokens.          *)
(*                                                                         *)
(* Every method is an operator from the map (and the clock and the         *)
(* arguments) to the map it leaves and the value it returns; the action    *)
(* Call_<method> applies it to the manager's state.                        *)
(***************************************************************************)
EXTENDS Integers, Sequences, FiniteSets, TLC

\* ---- bounds of the model ------------------------------------------------
MaxTokens == 2
MaxTime == 2
MaxKeepAlive == 1
\* self._cleanup_interval: an attribute of the manager, 60 unless reassigned;
\* the model keeps it within reach of the bounded clock.
CleanupInterval == 1

Tokens == 1..MaxTokens
KeepAlives == {0, MaxKeepAlive}
Sessions == {"s1"}
ToolNames == {"sum"}
ArgumentValues == {"a1b2"}
Results == {"total3"}
Errors == {"boom"}

None == <<>>
Some(x) == <<x>>

\* mcp.types.AsyncOperationStatus
Statuses ==
    {"submitted", "working", "input_required", "completed", "failed", "canceled", "unknown"}

VARIABLES
    ops,      \* self._operations: token -> ServerAsyncOperation
    now,      \* time.time()
    minted,   \* number of tokens generate_token has returned
    entered,  \* the manager is between __aenter__ and __aexit__
    reaper,   \* position of the _cleanup_loop task
    wakeAt    \* deadline of the task's pending anyio.sleep

vars == <<ops, now, minted, entered, reaper, wakeAt>>

\* Python truthiness of an Optional[float]: None and 0.0 are both falsy.
Falsy(x) == x = None \/ x[1] = 0

\* ServerAsyncOperation(...) as create_operation builds it
ServerAsyncOperation(token, tool_name, arguments, status, created_at, keep_alive, session_id) ==
    [token |-> token, tool_name |-> tool_name, arguments |-> arguments,
     status |-> status, created_at |-> created_at, keep_alive |-> keep_alive,
     resolved_at |-> None, session_id |-> session_id,
     result |-> None, error |-> None]

\* is_expired without the status test: any record with resolved_at set expires
is_expired_any_status(operation, time) ==
    IF Falsy(operation.resolved_at) THEN FALSE
    ELSE time > operation.resolved_at[1] + operation.keep_alive

\* ServerAsyncOperation.is_expired, read at clock value time
is_expired(operation, time) ==
    IF Falsy(operation.resolved_at) THEN FALSE
    ELSE IF operation.status \in {"completed", "failed", "canceled"}
         THEN time > operation.resolved_at[1] + operation.keep_alive
         ELSE FALSE

\* ServerAsyncOperation.is_terminal
is_terminal(operation) ==
    operation.status \in {"completed", "failed", "canceled", "unknown"}

\* what a method leaves and returns
Outcome(operations, ret) == [ops |-> operations, ret |-> ret]

\* BaseOperationManager._get_operation: dict.get
get_operation_(operations, token) ==
    IF token \in DOMAIN operations THEN Some(operations[token]) ELSE None

\* BaseOperationManager._set_operation: dict item assignment
set_operation_(operations, token, operation) ==
    [t \in (DOMAIN operations) \cup {token} |->
        IF t = token THEN operation ELSE operations[t]]

\* dict.pop(token, None) and del on each of the tokens: the map without them
Without(operations, tokens) ==
    [t \in (DOMAIN operations) \ tokens |-> operations[t]]

\* BaseOperationManager.get_operation
get_operation(operations, token) ==
    get_operation_(operations, token)

\* ClientAsyncOperationManager.get_tool_name's lookup
get_tool_name(operations, token) ==
    LET operation == get_operation_(operations, token) IN
    IF operation # None THEN Some(operation[1].tool_name) ELSE None

\* ServerAsyncOperationManager.create_operation, with the token generate_token
\* returned
create_operation(operations, time, token, tool_name, arguments, keep_alive, session_id) ==
    LET operation == ServerAsyncOperation(token, tool_name, arguments, "submitted",
                                          time, keep_alive, session_id)
    IN Outcome(set_operation_(operations, token, operation), operation)

\* ServerAsyncOperationManager.mark_working
mark_working(operations, token) ==
    LET operation == get_operation_(operations, token) IN
    IF operation = None THEN Outcome(operations, FALSE)
    ELSE IF operation[1].status # "submitted" THEN Outcome(operations, FALSE)
    ELSE Outcome([operations EXCEPT ![token].status = "working"], TRUE)

\* complete_operation that does not stamp resolved_at (as cancel_operation)
complete_operation_unstamped(operations, time, token, result) ==
    LET operation == get_operation_(operations, token) IN
    IF operation = None THEN Outcome(operations, FALSE)
    ELSE IF operation[1].status \notin {"submitted", "working"}
    THEN Outcome(operations, FALSE)
    ELSE Outcome([operations EXCEPT ![token].status = "completed",
                                    ![token].result = Some(result)], TRUE)

\* complete_operation that does not store the result
complete_operation_result_dropped(operations, time, token, result) ==
    LET operation == get_operation_(operations, token) IN
    IF operation = None THEN Outcome(operations, FALSE)
    ELSE IF operation[1].status \notin {"submitted", "working"}
    THEN Outcome(operations, FALSE)
    ELSE Outcome([operations EXCEPT ![token].status = "completed",
                                    ![token].resolved_at = Some(time)], TRUE)

\* complete_operation without the test of the source status
complete_operation_unchecked(operations, time, token, result) ==
    LET operation == get_operation_(operations, token) IN
    IF operation = None THEN Outcome(operations, FALSE)
    ELSE Outcome([operations EXCEPT ![token].status = "completed",
                                    ![token].result = Some(result),
                                    ![token].resolved_at = Some(time)], TRUE)

\* ServerAsyncOperationManager.complete_operation
complete_operation(operations, time, token, result) ==
    LET operation == get_operation_(operations, token) IN
    IF operation = None THEN Outcome(operations, FALSE)
    ELSE IF operation[1].status \notin {"submitted", "working"}
    THEN Outcome(operations, FALSE)
    ELSE Outcome([operations EXCEPT ![token].status = "completed",
                                    ![token].result = Some(result),
                                    ![token].resolved_at = Some(time)], TRUE)

\* fail_operation without the test of the source status
fail_operation_unchecked(operations, time, token, error) ==
    LET operation == get_operation_(operations, token) IN
    IF operation = None THEN Outcome(operations, FALSE)
    ELSE Outcome([operations EXCEPT ![token].status = "failed",
                                    ![token].error = Some(error),
                                    ![token].resolved_at = Some(time)], TRUE)

\* ServerAsyncOperationManager.fail_operation
fail_operation(operations, time, token, error) ==
    LET operation == get_operation_(operations, token) IN
    IF operation = None THEN Outcome(operations, FALSE)
    ELSE IF operation[1].status \notin {"submitted", "working"}
    THEN Outcome(operations, FALSE)
    ELSE Outcome([operations EXCEPT ![token].status = "failed",
                                    ![token].error = Some(error),
                                    ![token].resolved_at = Some(time)], TRUE)

\* ServerAsyncOperationManager.get_operation_result
get_operation_result(operations, token) ==
    LET operation == get_operation_(operations, token) IN
    IF operation = None \/ operation[1].status # "completed" THEN None
    ELSE operation[1].result

\* cancel_operation that accepts every record that is not terminal
cancel_operation_not_terminal(operations, token) ==
    LET operation == get_operation_(operations, token) IN
    IF operation = None THEN Outcome(operations, FALSE)
    ELSE IF is_terminal(operation[1]) THEN Outcome(operations, FALSE)
    ELSE Outcome([operations EXCEPT ![token].status = "canceled"], TRUE)

\* cancel_operation that also stamps resolved_at, with the record's own
\* created_at
cancel_operation_resolved(operations, token) ==
    LET operation == get_operation_(operations, token) IN
    IF operation = None THEN Outcome(operations, FALSE)
    ELSE IF operation[1].status \notin {"submitted", "working"}
    THEN Outcome(operations, FALSE)
    ELSE Outcome([operations EXCEPT ![token].status = "canceled",
                                    ![token].resolved_at = Some(operation[1].created_at)],
                 TRUE)

\* ServerAsyncOperationManager.cancel_operation
cancel_operation(operations, token) ==
    LET operation == get_operation_(operations, token) IN
    IF operation = None THEN Outcome(operations, FALSE)
    ELSE IF operation[1].status \notin {"submitted", "working"}
    THEN Outcome(operations, FALSE)
    ELSE Outcome([operations EXCEPT ![token].status = "canceled"], TRUE)

\* ServerAsyncOperationManager.mark_input_required
mark_input_required(operations, token) ==
    LET operation == get_operation_(operations, token) IN
    IF operation = None THEN Outcome(operations, FALSE)
    ELSE IF operation[1].status \notin {"submitted", "working"}
    THEN Outcome(operations, FALSE)
    ELSE Outcome([operations EXCEPT ![token].status = "input_required"], TRUE)

\* mark_input_completed that leaves the record in the status unknown
mark_input_completed_unknown(operations, token) ==
    LET operation == get_operation_(operations, token) IN
    IF operation = None THEN Outcome(operations, FALSE)
    ELSE IF operation[1].status # "input_required" THEN Outcome(operations, FALSE)
    ELSE Outcome([operations EXCEPT ![token].status = "unknown"], TRUE)

\* ServerAsyncOperationManager.mark_input_completed
mark_input_completed(operations, token) ==
    LET operation == get_operation_(operations, token) IN
    IF operation = None THEN Outcome(operations, FALSE)
    ELSE IF operation[1].status # "input_required" THEN Outcome(operations, FALSE)
    ELSE Outcome([operations EXCEPT ![token].status = "working"], TRUE)

\* remove_operation that reports success whether or not the token was there
remove_operation_true(operations, token) ==
    Outcome(Without(operations, {token}), TRUE)

\* ServerAsyncOperationManager.remove_operation: dict.pop(token, None) is not None
remove_operation(operations, token) ==
    Outcome(Without(operations, {token}), token \in DOMAIN operations)

\* the expired_tokens list both cleanup methods build
expired_tokens(operations, time) ==
    {token \in DOMAIN operations : is_expired(operations[token], time)}

\* cleanup_expired that removes every resolved record, whatever its keep-alive
cleanup_expired_resolved(operations, time) ==
    LET resolved == {token \in DOMAIN operations : operations[token].resolved_at # None}
    IN Outcome(Without(operations, resolved), Cardinality(resolved))

\* BaseOperationManager.cleanup_expired
cleanup_expired(operations, time) ==
    Outcome(Without(operations, expired_tokens(operations, time)),
            Cardinality(expired_tokens(operations, time)))

\* ServerAsyncOperationManager.cleanup_expired_operations
cleanup_expired_operations(operations, time) ==
    Outcome(Without(operations, expired_tokens(operations, time)),
            Cardinality(expired_tokens(operations, time)))

\* session_tokens without the session_id comparison
session_tokens_any(operations, session_id) ==
    DOMAIN operations

\* the tokens of the records get_session_operations lists
session_tokens(operations, session_id) ==
    {token \in DOMAIN operations : operations[token].session_id = Some(session_id)}

\* the records of the tokens, in dict (insertion) order
RECURSIVE InOrder(_, _)
InOrder(operations, tokens) ==
    IF tokens = {} THEN <<>>
    ELSE LET first == CHOOSE t \in tokens : \A u \in tokens : t <= u
         IN <<operations[first]>> \o InOrder(operations, tokens \ {first})

\* ServerAsyncOperationManager.get_session_operations
get_session_operations(operations, session_id) ==
    InOrder(operations, session_tokens(operations, session_id))

\* cancel_session_operations without the is_terminal test
cancel_session_operations_all(operations, session_id) ==
    LET session_ops == session_tokens(operations, session_id)
    IN Outcome([token \in DOMAIN operations |->
                   IF token \in session_ops
                   THEN [operations[token] EXCEPT !.status = "canceled"]
                   ELSE operations[token]],
               Cardinality(session_ops))

\* cancel_session_operations that cancels only what cancel_operation accepts
cancel_session_operations_active(operations, session_id) ==
    LET session_ops == session_tokens(operations, session_id)
        canceled == {token \in session_ops :
                        operations[token].status \in {"submitted", "working"}}
    IN Outcome([token \in DOMAIN operations |->
                   IF token \in canceled
                   THEN [operations[token] EXCEPT !.status = "canceled"]
                   ELSE operations[token]],
               Cardinality(canceled))

\* ServerAsyncOperationManager.cancel_session_operations
cancel_session_operations(operations, session_id) ==
    LET session_ops == session_tokens(operations, session_id)
        canceled == {token \in session_ops : ~is_terminal(operations[token])}
    IN Outcome([token \in DOMAIN operations |->
                   IF token \in canceled
                   THEN [operations[token] EXCEPT !.status = "canceled"]
                   ELSE operations[token]],
               Cardinality(canceled))

\* ---- the manager as a state machine ---------------------------------------
Init ==
    /\ ops = <<>>
    /\ now = 1
    /\ minted = 0
    /\ entered = FALSE
    /\ reaper = "none"
    /\ wakeAt = 0

\* the clock advances
Tick ==
    /\ now < MaxTime
    /\ now' = now + 1
    /\ UNCHANGED <<ops, minted, entered, reaper, wakeAt>>

\* BaseOperationManager.generate_token: the next token of the generator
generate_token == minted + 1

Call_create_operation(tool_name, arguments, keep_alive, session_id) ==
    /\ minted < MaxTokens
    /\ minted' = generate_token
    /\ ops' = create_operation(ops, now, generate_token, tool_name, arguments,
                               keep_alive, session_id).ops
    /\ UNCHANGED <<now, entered, reaper, wakeAt>>

Call_mark_working(token) ==
    /\ ops' = mark_working(ops, token).ops
    /\ UNCHANGED <<now, minted, entered, reaper, wakeAt>>

Call_mark_input_required(token) ==
    /\ ops' = mark_input_required(ops, token).ops
    /\ UNCHANGED <<now, minted, entered, reaper, wakeAt>>

Call_mark_input_completed(token) ==
    /\ ops' = mark_input_completed(ops, token).ops
    /\ UNCHANGED <<now, minted, entered, reaper, wakeAt>>

Call_complete_operation(token, result) ==
    /\ ops' = complete_operation(ops, now, token, result).ops
    /\ UNCHANGED <<now, minted, entered, reaper, wakeAt>>

Call_fail_operation(token, error) ==
    /\ ops' = fail_operation(ops, now, token, error).ops
    /\ UNCHANGED <<now, minted, entered, reaper, wakeAt>>

Call_cancel_operation(token) ==
    /\ ops' = cancel_operation(ops, token).ops
    /\ UNCHANGED <<now, minted, entered, reaper, wakeAt>>

Call_remove_operation(token) ==
    /\ ops' = remove_operation(ops, token).ops
    /\ UNCHANGED <<now, minted, entered, reaper, wakeAt>>

Call_cleanup_expired ==
    /\ ops' = cleanup_expired(ops, now).ops
    /\ UNCHANGED <<now, minted, entered, reaper, wakeAt>>

Call_cleanup_expired_operations ==
    /\ ops' = cleanup_expired_operations(ops, now).ops
    /\ UNCHANGED <<now, minted, entered, reaper, wakeAt>>

Call_cancel_session_operations(session_id) ==
    /\ ops' = cancel_session_operations(ops, session_id).ops
    /\ UNCHANGED <<now, minted, entered, reaper, wakeAt>>

OptSessions == {None} \cup {Some(s) : s \in Sessions}

\* the calls a user of the manager makes, and the clock
Next ==
    \/ Tick
    \/ \E tn \in ToolNames, a \in ArgumentValues, k \in KeepAlives, s \in OptSessions :
            Call_create_operation(tn, a, k, s)
    \/ \E token \in Tokens : Call_mark_working(token)
    \/ \E token \in Tokens : Call_mark_input_required(token)
    \/ \E token \in Tokens : Call_mark_input_completed(token)
    \/ \E token \in Tokens, result \in Results : Call_complete_operation(token, result)
    \/ \E token \in Tokens, error \in Errors : Call_fail_operation(token, error)
    \/ \E token \in Tokens : Call_cancel_operation(token)
    \/ \E token \in Tokens : Call_remove_operation(token)
    \/ Call_cleanup_expired
    \/ Call_cleanup_expired_operations
    \/ \E session_id \in Sessions : Call_cancel_session_operations(session_id)

Spec == Init /\ [][Next]_vars

\* ---- the manager with its background task --------------------------------
\* The task's position, reaper: "none" (no task), "started" (start_soon has
\* scheduled it), "sleeping" (inside anyio.sleep until wakeAt), "waking" (the
\* sleep ended before the scope was cancelled and the task has not run
\* since), "cancelling" (the cancellation is on its way to the task), "ended"
\* (the task is over; it stays so until the manager is entered again).

\* BaseOperationManager.__aenter__: open the task group, start _cleanup_loop
aenter ==
    /\ ~entered
    /\ entered' = TRUE
    /\ reaper' = "started"
    /\ wakeAt' = 0
    /\ UNCHANGED <<ops, now, minted>>

\* __aexit__ that also drops the tracked operations
aexit_cancel_clearing ==
    /\ entered
    /\ reaper \in {"started", "sleeping"}
    /\ reaper' = "cancelling"
    /\ ops' = <<>>
    /\ UNCHANGED <<now, minted, entered, wakeAt>>

\* BaseOperationManager.__aexit__ up to its last await: close the exit stack
\* and cancel the task group's scope.  A task whose sleep has already ended
\* runs on to its next anyio.sleep before the cancellation reaches it.
aexit_cancel ==
    /\ entered
    /\ reaper \in {"started", "sleeping"}
    /\ \/ reaper' = "cancelling"
       \/ /\ reaper = "sleeping"
          /\ now >= wakeAt
          /\ reaper' = "waking"
    /\ UNCHANGED <<ops, now, minted, entered, wakeAt>>

\* __aexit__ that returns without waiting for the task to end
aexit_wait_unjoined ==
    /\ entered
    /\ reaper \in {"waking", "cancelling", "ended"}
    /\ entered' = FALSE
    /\ UNCHANGED <<ops, now, minted, reaper, wakeAt>>

\* BaseOperationManager.__aexit__, its last await: the task group's __aexit__
\* returns when the task has ended
aexit_wait ==
    /\ entered
    /\ reaper = "ended"
    /\ entered' = FALSE
    /\ wakeAt' = 0
    /\ UNCHANGED <<ops, now, minted, reaper>>

\* BaseOperationManager.__aexit__
aexit ==
    \/ aexit_cancel
    \/ aexit_wait

\* _cleanup_loop whose pass does not call cleanup_expired
cleanup_pass_skipped ==
    /\ \/ /\ reaper = "sleeping"
          /\ now >= wakeAt
          /\ reaper' = "sleeping"
          /\ wakeAt' = now + CleanupInterval
       \/ /\ reaper = "waking"
          /\ reaper' = "ended"
          /\ wakeAt' = wakeAt
    /\ UNCHANGED <<ops, now, minted, entered>>

\* BaseOperationManager._cleanup_loop after a sleep that has ended: run
\* cleanup_expired and go to sleep again; the sleep of a cancelled task ends
\* the task
cleanup_pass ==
    /\ \/ /\ reaper = "sleeping"
          /\ now >= wakeAt
          /\ reaper' = "sleeping"
          /\ wakeAt' = now + CleanupInterval
       \/ /\ reaper = "waking"
          /\ reaper' = "ended"
          /\ wakeAt' = wakeAt
    /\ ops' = cleanup_expired(ops, now).ops
    /\ UNCHANGED <<now, minted, entered>>

\* BaseOperationManager._cleanup_loop: the task runs up to its next
\* anyio.sleep; after a sleep that has ended it first runs cleanup_expired
cleanup_loop ==
    \/ /\ reaper = "started"
       /\ reaper' = "sleeping"
       /\ wakeAt' = now + CleanupInterval
       /\ UNCHANGED <<ops, now, minted, entered>>
    \/ cleanup_pass
    \/ /\ reaper = "cancelling"
       /\ reaper' = "ended"
       /\ UNCHANGED <<ops, now, minted, entered, wakeAt>>

\* The callers beside the background task: they create operations, complete
\* or cancel them and remove them, and the clock advances.
NextLife ==
    \/ Tick
    \/ \E tn \in ToolNames, a \in ArgumentValues, k \in KeepAlives :
            Call_create_operation(tn, a, k, None)
    \/ \E token \in Tokens, result \in Results : Call_complete_operation(token, result)
    \/ \E token \in Tokens : Call_cancel_operation(token)
    \/ \E token \in Tokens : Call_remove_operation(token)
    \/ aenter
    \/ aexit
    \/ cleanup_loop

SpecLife == Init /\ [][NextLife]_vars

\* the event loop runs every task that is ready, and the clock advances
SpecLifeFair ==
    /\ SpecLife
    /\ WF_vars(Tick)
    /\ WF_vars(cleanup_loop)
    /\ WF_vars(aexit_wait)

\* ---- fabricated records: the expiry rule as a function of its inputs ------
\* A record as a test fabricates it: any status, resolved_at unset or at any
\* instant up to the clock, result and error as the status has them.
Fabricated(status, resolved_at, keep_alive) ==
    [ServerAsyncOperation(1, "sum", "a1b2", status, 0, keep_alive, None)
        EXCEPT !.resolved_at = resolved_at,
               !.result = IF status = "completed" THEN Some("total3") ELSE None,
               !.error = IF status = "failed" THEN Some("boom") ELSE None]

InitExpiry ==
    /\ \E status \in Statuses, keep_alive \in 0..MaxKeepAlive, time \in 0..MaxTime :
         \E resolved_at \in {None} \cup {Some(t) : t \in 0..time} :
            /\ ops = (1 :> Fabricated(status, resolved_at, keep_alive))
            /\ now = time
    /\ minted = 1
    /\ entered = FALSE
    /\ reaper = "none"
    /\ wakeAt = 0

NextExpiry ==
    \/ Tick
    \/ Call_cleanup_expired
    \/ Call_cleanup_expired_operations

SpecExpiry == InitExpiry /\ [][NextExpiry]_vars

\* ---- the transition table of the specification (section 4.3) --------------
TransitionCalls ==
    {"mark_working", "mark_input_required", "mark_input_completed",
     "complete_operation", "fail_operation", "cancel_operation"}

AllowedFrom(call) ==
    CASE call = "mark_working" -> {"submitted"}
      [] call = "mark_input_required" -> {"submitted", "working"}
      [] call = "mark_input_completed" -> {"input_required"}
      [] call = "complete_operation" -> {"submitted", "working"}
      [] call = "fail_operation" -> {"submitted", "working"}
      [] call = "cancel_operation" -> {"submitted", "working"}

ResultingStatus(call) ==
    CASE call = "mark_working" -> "working"
      [] call = "mark_input_required" -> "input_required"
      [] call = "mark_input_completed" -> "working"
      [] call = "complete_operation" -> "completed"
      [] call = "fail_operation" -> "failed"
      [] call = "cancel_operation" -> "canceled"

\* the values a call can be given besides the token
Payloads(call) ==
    CASE call = "complete_operation" -> Results
      [] call = "fail_operation" -> Errors
      [] OTHER -> {"-"}

\* the transition method of that name, called on the map
Apply(call, operations, time, token, payload) ==
    CASE call = "mark_working" -> mark_working(operations, token)
      [] call = "mark_input_required" -> mark_input_required(operations, token)
      [] call = "mark_input_completed" -> mark_input_completed(operations, token)
      [] call = "complete_operation" -> complete_operation(operations, time, token, payload)
      [] call = "fail_operation" -> fail_operation(operations, time, token, payload)
      [] call = "cancel_operation" -> cancel_operation(operations, token)

TerminalStatuses == {"completed", "failed", "canceled"}
ActiveStatuses == {"submitted", "working", "input_required"}

\* the fields a transition may write
Outcomes(operation) ==
    <<operation.status, operation.result, operation.error, operation.resolved_at>>

\* ---- C1 --------------------------------------------------------------------
\* C1: in every reachable state, for every stored record and every transition
\* call whose allowed-source set (section 4.3) does not hold the record's
\* status, the call returns false and leaves the record present with its
\* status, result, error and resolved_at as they were.
TransitionSoundness ==
    \A token \in DOMAIN ops, call \in TransitionCalls :
        ops[token].status \notin AllowedFrom(call) =>
            \A payload \in Payloads(call) :
                LET o == Apply(call, ops, now, token, payload) IN
                /\ o.ret = FALSE
                /\ token \in DOMAIN o.ops
                /\ Outcomes(o.ops[token]) = Outcomes(ops[token])

\* a record waits for input, and cancel_operation on it is refused; another
\* call (mark_working) is refused on a record that is already resolved
TransitionSoundnessWitness ==
    /\ \E token \in DOMAIN ops :
        /\ ops[token].status = "input_required"
        /\ cancel_operation(ops, token).ret = FALSE
    /\ \E token \in DOMAIN ops :
        /\ ops[token].status \in TerminalStatuses
        /\ mark_working(ops, token).ret = FALSE

\* ---- C2 --------------------------------------------------------------------
\* C2: create_operation stores a new record, status submitted, under the new
\* token and returns it; a transition call on a stored record whose status is
\* in the call's allowed-source set returns true and leaves the record in the
\* table's resulting status, complete_operation with the result stored and
\* resolved_at = now, fail_operation with the error stored and resolved_at = now.
TableConformance ==
    /\ \A tn \in ToolNames, a \in ArgumentValues, k \in KeepAlives, s \in OptSessions :
        LET o == create_operation(ops, now, generate_token, tn, a, k, s) IN
        /\ DOMAIN o.ops = DOMAIN ops \cup {generate_token}
        /\ o.ops[generate_token].status = "submitted"
        /\ o.ops[generate_token].token = generate_token
        /\ o.ret = o.ops[generate_token]
    /\ \A token \in DOMAIN ops, call \in TransitionCalls :
        ops[token].status \in AllowedFrom(call) =>
            \A payload \in Payloads(call) :
                LET o == Apply(call, ops, now, token, payload) IN
                /\ o.ret = TRUE
                /\ token \in DOMAIN o.ops
                /\ o.ops[token].status = ResultingStatus(call)
                /\ call = "complete_operation" =>
                      /\ o.ops[token].result = Some(payload)
                      /\ o.ops[token].resolved_at = Some(now)
                /\ call = "fail_operation" =>
                      /\ o.ops[token].error = Some(payload)
                      /\ o.ops[token].resolved_at = Some(now)

\* the end-to-end scenario has run up to completion: a record created earlier
\* is completed at this instant with its result, while another was marked
\* working
TableConformanceWitness ==
    /\ \E token \in DOMAIN ops :
        /\ ops[token].status = "completed"
        /\ ops[token].result = Some("total3")
        /\ ops[token].created_at < now
        /\ ops[token].resolved_at = Some(now)
    /\ \E token \in DOMAIN ops : ops[token].status = "working"

\* ---- C3 --------------------------------------------------------------------
\* C3: once a stored record is completed, failed or canceled, every transition
\* call on its token returns false, and no step of the manager changes its
\* status while it stays in the map.
TerminalCallsRefused ==
    \A token \in DOMAIN ops, call \in TransitionCalls :
        ops[token].status \in TerminalStatuses =>
            \A payload \in Payloads(call) :
                Apply(call, ops, now, token, payload).ret = FALSE

TerminalStatusKept ==
    \A token \in DOMAIN ops :
        (ops[token].status \in TerminalStatuses /\ token \in DOMAIN ops')
            => ops'[token].status = ops[token].status

TerminalImmutability ==
    [](TerminalCallsRefused) /\ [][TerminalStatusKept]_vars

\* a record resolved at an earlier instant is still in the map, of a session
\* whose other record can still be canceled by cancel_session_operations
TerminalImmutabilityWitness ==
    \E token \in DOMAIN ops, other \in DOMAIN ops :
        /\ ops[token].status = "completed"
        /\ ops[token].resolved_at # None
        /\ ops[token].resolved_at[1] < now
        /\ ops[token].session_id = Some("s1")
        /\ ops[other].session_id = Some("s1")
        /\ ops[other].status = "input_required"

\* ---- C4 --------------------------------------------------------------------
\* C4: in every reachable state and for every token, get_operation_result
\* returns a result exactly when the token is in the map with status
\* completed, and None otherwise.
ResultGating ==
    \A token \in Tokens :
        (get_operation_result(ops, token) # None)
            <=> (token \in DOMAIN ops /\ ops[token].status = "completed")

\* a completed record hands out its result while a failed one hands out none
ResultGatingWitness ==
    \E token \in DOMAIN ops, other \in DOMAIN ops :
        /\ ops[token].status = "completed"
        /\ get_operation_result(ops, token) = Some("total3")
        /\ ops[other].status = "failed"
        /\ get_operation_result(ops, other) = None

\* ---- C5 --------------------------------------------------------------------
\* C5: in every reachable state, a stored record's resolved_at is set exactly
\* when its status is completed, failed or canceled.
ResolvedIffTerminal ==
    \A token \in DOMAIN ops :
        (ops[token].resolved_at # None) <=> (ops[token].status \in TerminalStatuses)

\* ---- C6 --------------------------------------------------------------------
\* C6: in every reachable state, no stored record has both result and error;
\* result is set only on a completed record, error only on a failed one, and
\* neither on a submitted, working or input_required one.
ResultErrorExclusive ==
    \A token \in DOMAIN ops :
        LET operation == ops[token] IN
        /\ ~(operation.result # None /\ operation.error # None)
        /\ operation.result # None => operation.status = "completed"
        /\ operation.error # None => operation.status = "failed"
        /\ operation.status \in ActiveStatuses =>
              (operation.result = None /\ operation.error = None)

\* one record has failed with its error and no result, another has completed
\* with its result and no error
ResultErrorExclusiveWitness ==
    \E token \in DOMAIN ops, other \in DOMAIN ops :
        /\ ops[token].status = "failed"
        /\ ops[token].error = Some("boom")
        /\ ops[token].result = None
        /\ ops[other].status = "completed"
        /\ ops[other].result = Some("total3")
        /\ ops[other].error = None

\* ---- C7 --------------------------------------------------------------------
\* C7: in every reachable state, one call of cleanup_expired (and of
\* cleanup_expired_operations) leaves exactly the records that are not
\* expired at the call, each as it was, and returns the number of records it
\* removed; every submitted, working or input_required record remains.
CleanupExact ==
    LET expired == {token \in DOMAIN ops : is_expired(ops[token], now)} IN
    \A clean \in {cleanup_expired(ops, now), cleanup_expired_operations(ops, now)} :
        /\ DOMAIN clean.ops = (DOMAIN ops) \ expired
        /\ \A token \in DOMAIN clean.ops : clean.ops[token] = ops[token]
        /\ clean.ret = Cardinality(expired)
        /\ \A token \in DOMAIN ops :
              ops[token].status \in ActiveStatuses => token \in DOMAIN clean.ops

\* the map holds a record past its keep-alive and a resolved record still
\* within its keep-alive: the call removes the first one only
CleanupExactWitness ==
    \E token \in DOMAIN ops, other \in DOMAIN ops :
        /\ is_expired(ops[token], now)
        /\ ops[other].status \in TerminalStatuses
        /\ ops[other].resolved_at # None
        /\ ~is_expired(ops[other], now)
        /\ cleanup_expired(ops, now).ret = 1
        /\ DOMAIN cleanup_expired(ops, now).ops = {other}

\* ---- C8 --------------------------------------------------------------------
\* C8: a completed record with resolved_at = T (any T >= 0) and keep_alive = K
\* is expired at every clock value above T + K and at no clock value up to
\* T + K.
ExpiryMonotonicity ==
    \A token \in DOMAIN ops :
        (ops[token].status = "completed" /\ ops[token].resolved_at # None) =>
            (is_expired(ops[token], now)
                <=> now > ops[token].resolved_at[1] + ops[token].keep_alive)

\* ---- C9 --------------------------------------------------------------------
\* C9: a record that is_expired reports expired is completed, failed or
\* canceled, has resolved_at set, and the clock is past resolved_at +
\* keep_alive; so a cleanup call removes no submitted, working, input_required
\* or unknown record.
ExpiredOnlyAfterKeepAlive ==
    \A token \in DOMAIN ops :
        LET operation == ops[token] IN
        /\ is_expired(operation, now) =>
              /\ operation.status \in TerminalStatuses
              /\ operation.resolved_at # None
              /\ now > operation.resolved_at[1] + operation.keep_alive
        /\ operation.status \in ActiveStatuses \cup {"unknown"} =>
              /\ token \in DOMAIN cleanup_expired(ops, now).ops
              /\ token \in DOMAIN cleanup_expired_operations(ops, now).ops

\* a record is reported expired, and cleanup_expired removes it
ExpiredOnlyAfterKeepAliveWitness ==
    \E token \in DOMAIN ops :
        /\ is_expired(ops[token], now)
        /\ token \notin DOMAIN cleanup_expired(ops, now).ops

\* ---- C10 -------------------------------------------------------------------
\* C10: for a token that is not in the map, every transition call returns
\* false, get_operation, get_operation_result and get_tool_name return None,
\* remove_operation returns false, and each of these calls leaves the map as
\* it was; a token once handed out and no longer in the map never comes back.
UnknownTokenRefused ==
    \A token \in Tokens \ DOMAIN ops :
        /\ \A call \in TransitionCalls : \A payload \in Payloads(call) :
              LET o == Apply(call, ops, now, token, payload) IN
              o.ret = FALSE /\ o.ops = ops
        /\ get_operation(ops, token) = None
        /\ get_operation_result(ops, token) = None
        /\ get_tool_name(ops, token) = None
        /\ remove_operation(ops, token).ret = FALSE
        /\ remove_operation(ops, token).ops = ops

NoResurrection ==
    \A token \in 1..minted : token \notin DOMAIN ops => token \notin DOMAIN ops'

UnknownTokenHandling ==
    [](UnknownTokenRefused) /\ [][NoResurrection]_vars

\* one token was handed out and its record is gone, the other token was never
\* handed out
UnknownTokenHandlingWitness ==
    /\ minted = 1
    /\ DOMAIN ops = {}
    /\ complete_operation(ops, now, 1, "total3").ret = FALSE
    /\ complete_operation(ops, now, 2, "total3").ret = FALSE

\* ---- C11 -------------------------------------------------------------------
\* a session id that no record carries
OtherSessions == {"s2"}

\* C11: cancel_session_operations(S) sets to canceled exactly the records
\* whose session_id is S and that are not terminal when it is called, changes
\* no other field of them, returns how many it changed, leaves every record of
\* another session or of no session and every terminal record of S as it was,
\* and removes no record.
SessionIsolation ==
    \A session_id \in Sessions \cup OtherSessions :
        LET o == cancel_session_operations(ops, session_id)
            hit == {token \in DOMAIN ops :
                       /\ ops[token].session_id = Some(session_id)
                       /\ ops[token].status \notin TerminalStatuses \cup {"unknown"}}
        IN /\ DOMAIN o.ops = DOMAIN ops
           /\ \A token \in hit :
                 o.ops[token] = [ops[token] EXCEPT !.status = "canceled"]
           /\ \A token \in (DOMAIN ops) \ hit : o.ops[token] = ops[token]
           /\ o.ret = Cardinality(hit)

\* the map holds a record of session s1 waiting for input and a submitted
\* record of no session: the call for s1 cancels the first one only
SessionIsolationWitness ==
    \E token \in DOMAIN ops, other \in DOMAIN ops :
        /\ ops[token].session_id = Some("s1")
        /\ ops[token].status = "input_required"
        /\ ops[other].session_id = None
        /\ ops[other].status = "submitted"
        /\ cancel_session_operations(ops, "s1").ret = 1
        /\ cancel_session_operations(ops, "s1").ops[other].status = "submitted"

\* ---- C12 -------------------------------------------------------------------
\* __aexit__ has cancelled the scope and has not returned yet
Exiting == entered /\ reaper \in {"waking", "cancelling", "ended"}

\* C12: the background task runs a cleanup_expired pass only while the
\* manager is entered, so none after __aexit__ has returned, whatever the
\* interleaving; and an __aexit__ that has begun always returns, although
\* _cleanup_loop never ends by itself.
NoPassAfterExit ==
    /\ [][cleanup_pass => entered]_vars
    /\ (Exiting ~> ~entered)

\* the manager was entered and has been left again, and an operation that is
\* past its keep-alive is still in the map
NoPassAfterExitWitness ==
    /\ ~entered
    /\ reaper = "ended"
    /\ \E token \in DOMAIN ops : is_expired(ops[token], now)

\* ---- C13 -------------------------------------------------------------------
\* the task is inside a sleep that ends within the clock's range
ReaperWillWake == entered /\ reaper = "sleeping" /\ wakeAt <= MaxTime

\* a pass happens only after a sleep of one interval has ended, removes every
\* operation that is expired at that moment and no other, and is followed by
\* the next sleep of one interval
PassAfterSleep ==
    /\ (reaper = "started" /\ reaper' = "sleeping") => wakeAt' = now + CleanupInterval
    /\ cleanup_pass =>
          /\ now >= wakeAt
          /\ wakeAt >= CleanupInterval
          /\ DOMAIN ops' = (DOMAIN ops) \ expired_tokens(ops, now)
          /\ \A token \in DOMAIN ops' :
                ops'[token] = ops[token] /\ ~is_expired(ops'[token], now)
          /\ reaper' = "sleeping" => wakeAt' = now + CleanupInterval

ExitStepKeepsOperations ==
    aexit =>
        /\ ops' = ops
        /\ \A token \in Tokens :
              /\ get_operation(ops', token) = get_operation(ops, token)
              /\ get_operation_result(ops', token) = get_operation_result(ops, token)
              /\ remove_operation(ops', token) = remove_operation(ops, token)
              /\ \A call \in TransitionCalls : \A payload \in Payloads(call) :
                    Apply(call, ops', now', token, payload)
                        = Apply(call, ops, now, token, payload)

Horizon == MaxTime + MaxKeepAlive + 1

\* a canceled record has resolved_at unset, is not expired now nor at any
\* later clock value, and both cleanup calls keep it
CanceledKept ==
    \A token \in DOMAIN ops :
        ops[token].status = "canceled" =>
            /\ ops[token].resolved_at = None
            /\ \A time \in now..Horizon :
                  /\ ~is_expired(ops[token], time)
                  /\ token \in DOMAIN cleanup_expired(ops, time).ops
                  /\ token \in DOMAIN cleanup_expired_operations(ops, time).ops

\* a canceled record stays as it is, and leaves the map only by a
\* remove_operation call for its token
CanceledLeavesByRemove ==
    \A token \in DOMAIN ops :
        ops[token].status = "canceled" =>
            IF token \in DOMAIN ops'
            THEN ops'[token] = ops[token]
            ELSE /\ remove_operation(ops, token).ret
                 /\ ops' = remove_operation(ops, token).ops

\* C16: a record that cancel_operation or cancel_session_operations has set
\* to canceled has resolved_at None, so is_expired is false for it at every
\* later time and no cleanup_expired call or pass removes it; it leaves the
\* map only through remove_operation.
CanceledNeverExpires ==
    [](CanceledKept) /\ [][CanceledLeavesByRemove]_vars

\* a canceled record whose keep-alive has run out since it was created is
\* still in the map, and a cleanup call reports nothing removed
CanceledNeverExpiresWitness ==
    \E token \in DOMAIN ops :
        /\ ops[token].status = "canceled"
        /\ now > ops[token].created_at + ops[token].keep_alive
        /\ cleanup_expired(ops, now).ret = 0
        /\ token \in DOMAIN cleanup_expired(ops, now).ops

\* ---- C17 -------------------------------------------------------------------
\* C17: cancel_session_operations(S) sets every record of S that is not
\* terminal to canceled, the input_required ones too, for which
\* cancel_operation returns false; right after it every stored record of S is
\* terminal, and the same call made again returns 0 and changes nothing.
SessionCancelClosure ==
    \A session_id \in Sessions :
        LET first == cancel_session_operations(ops, session_id)
            again == cancel_session_operations(first.ops, session_id)
        IN /\ \A token \in DOMAIN first.ops :
                 first.ops[token].session_id = Some(session_id) =>
                     first.ops[token].status \in TerminalStatuses
           /\ \A token \in DOMAIN ops :
                 (/\ ops[token].session_id = Some(session_id)
                  /\ ops[token].status = "input_required") =>
                     /\ cancel_operation(ops, token).ret = FALSE
                     /\ first.ops[token].status = "canceled"
           /\ again.ret = 0
           /\ again.ops = first.ops

\* session s1 has a record waiting for input and a working one:
\* cancel_operation refuses the first, cancel_session_operations cancels both
SessionCancelClosureWitness ==
    \E token \in DOMAIN ops, other \in DOMAIN ops :
        /\ ops[token].session_id = Some("s1")
        /\ ops[token].status = "input_required"
        /\ ops[other].session_id = Some("s1")
        /\ ops[other].status = "working"
        /\ cancel_operation(ops, token).ret = FALSE
        /\ cancel_session_operations(ops, "s1").ret = 2
        /\ cancel_session_operations(cancel_session_operations(ops, "s1").ops, "s1").ret = 0

\* ---- C18 -------------------------------------------------------------------
\* C18: starting from the empty map, whatever create_operation, transition,
\* cancel_session_operations, remove_operation and cleanup calls are made, no
\* stored record has the status unknown: each has one of submitted, working,
\* input_required, completed, failed, canceled; so is_terminal is true of a
\* stored record exactly when it is completed, failed or canceled.
UnknownUnreachable ==
    \A token \in DOMAIN ops :
        /\ ops[token].status # "unknown"
        /\ ops[token].status \in ActiveStatuses \cup TerminalStatuses
        /\ is_terminal(ops[token]) <=> ops[token].status \in TerminalStatuses

\* two records have gone through the table: one has failed, the other is
\* waiting for input and can go back to working
UnknownUnreachableWitness ==
    \E token \in DOMAIN ops, other \in DOMAIN ops :
        /\ ops[token].status = "failed"
        /\ ops[other].status = "input_required"
        /\ mark_input_completed(ops, other).ret
        /\ mark_input_completed(ops, other).ops[other].status = "working"

\* ---- the client-side manager ------------------------------------------------
\* Here ops is the _operations of a ClientAsyncOperationManager; the tokens
\* are the ones a server has handed to the client.
ClientToolNames == {"sum", "echo"}

\* the client's clock runs until the longest grace period is over
ClientMaxTime == MaxTime + 2 * MaxKeepAlive

\* the ClientAsyncOperation dataclass
ClientAsyncOperation(token, tool_name, created_at, keep_alive) ==
    [token |-> token, tool_name |-> tool_name,
     created_at |-> created_at, keep_alive |-> keep_alive]

\* ClientAsyncOperation.is_expired without the doubling of keep_alive
is_expired_client_once(operation, time) ==
    time > operation.created_at + operation.keep_alive

\* ClientAsyncOperation.is_expired, with time.time() = time
is_expired_client(operation, time) ==
    time > operation.created_at + operation.keep_alive * 2

\* BaseOperationManager.cleanup_expired on a client manager
cleanup_expired_client(operations, time) ==
    LET expired == {token \in DOMAIN operations :
                       is_expired_client(operations[token], time)}
    IN Outcome(Without(operations, expired), Cardinality(expired))

\* ClientAsyncOperationManager.track_operation
track_operation(operations, time, token, tool_name, keep_alive) ==
    Outcome(set_operation_(operations, token,
                           ClientAsyncOperation(token, tool_name, time, keep_alive)),
            None)

TickClient ==
    /\ now < ClientMaxTime
    /\ now' = now + 1
    /\ UNCHANGED <<ops, minted, entered, reaper, wakeAt>>

Call_track_operation(token, tool_name, keep_alive) ==
    /\ ops' = track_operation(ops, now, token, tool_name, keep_alive).ops
    /\ UNCHANGED <<now, minted, entered, reaper, wakeAt>>

Call_cleanup_expired_client ==
    /\ ops' = cleanup_expired_client(ops, now).ops
    /\ UNCHANGED <<now, minted, entered, reaper, wakeAt>>

NextClient ==
    \/ TickClient
    \/ \E token \in Tokens, tn \in ClientToolNames, k \in KeepAlives :
            Call_track_operation(token, tn, k)
    \/ \E token \in Tokens : Call_remove_operation(token)
    \/ Call_cleanup_expired_client

SpecClient == Init /\ [][NextClient]_vars

\* ---- C19 -------------------------------------------------------------------
\* get_tool_name answers with the tool name of the stored record, and with
\* None for a token that has none; a cleanup pass at any clock value from now
\* on removes a record exactly when that value is above created_at +
\* 2 * keep_alive, and get_tool_name then answers None
ClientLookupAndExpiry ==
    /\ \A token \in Tokens \ DOMAIN ops : get_tool_name(ops, token) = None
    /\ \A token \in DOMAIN ops :
          /\ ops[token].token = token
          /\ get_tool_name(ops, token) = Some(ops[token].tool_name)
          /\ \A time \in now..(ClientMaxTime + 1) :
                LET clean == cleanup_expired_client(ops, time) IN
                /\ token \notin DOMAIN clean.ops
                      <=> time > ops[token].created_at + 2 * ops[token].keep_alive
                /\ token \notin DOMAIN clean.ops => get_tool_name(clean.ops, token) = None
                /\ token \in DOMAIN clean.ops => clean.ops[token] = ops[token]

\* track_operation makes its tool name the answer for its token, created at
\* the clock's value, whatever was tracked under the token before, and
\* touches no other token; the answer for a token changes only by a
\* track_operation for it or by its removal
ClientTrackingStep ==
    /\ \A token \in Tokens, tn \in ClientToolNames, k \in KeepAlives :
          Call_track_operation(token, tn, k) =>
              /\ get_tool_name(ops', token) = Some(tn)
              /\ ops'[token] = ClientAsyncOperation(token, tn, now, k)
              /\ DOMAIN ops' = (DOMAIN ops) \cup {token}
              /\ \A other \in (DOMAIN ops) \ {token} : ops'[other] = ops[other]
    /\ \A token \in (DOMAIN ops) \cap (DOMAIN ops') :
          \/ get_tool_name(ops', token) = get_tool_name(ops, token)
          \/ \E tn \in ClientToolNames, k \in KeepAlives :
                Call_track_operation(token, tn, k)

\* C19: after track_operation(token, tool, keep_alive) at time C,
\* get_tool_name(token) returns tool, the one of the latest track_operation
\* for the token, until the record is removed; a cleanup_expired pass removes
\* the record if and only if it runs at a time above C + 2 * keep_alive, and
\* get_tool_name(token) returns None after that.
ClientTracking ==
    [](ClientLookupAndExpiry) /\ [][ClientTrackingStep]_vars

\* a record tracked with a keep-alive above zero is looked up at the first
\* clock value past its doubled keep-alive: the lookup still answers, and a
\* cleanup pass now removes the record
ClientTrackingWitness ==
    \E token \in DOMAIN ops :
        /\ ops[token].keep_alive = MaxKeepAlive
        /\ now = ops[token].created_at + 2 * ops[token].keep_alive + 1
        /\ get_tool_name(ops, token) = Some("echo")
        /\ cleanup_expired_client(ops, now).ret = 1
        /\ get_tool_name(cleanup_expired_client(ops, now).ops, token) = None

\* ---- C20 -------------------------------------------------------------------
\* every record is stored under its own token
KeyedByToken == \A token \in DOMAIN ops : ops[token].token = token

\* a step changes none of the fields create_operation fixed, and none of
\* resolved_at, result and error once they are set
FieldsFrozen ==
    \A token \in (DOMAIN ops) \cap (DOMAIN ops') :
        LET before == ops[token]
            after == ops'[token]
        IN /\ after.token = before.token
           /\ after.tool_name = before.tool_name
           /\ after.arguments = before.arguments
           /\ after.created_at = before.created_at
           /\ after.keep_alive = before.keep_alive
           /\ after.session_id = before.session_id
           /\ before.resolved_at # None => after.resolved_at = before.resolved_at
           /\ before.result # None => after.result = before.result
           /\ before.error # None => after.error = before.error

\* C20: every stored record is under the key that is its token; no manager
\* method changes a stored record's token, tool_name, arguments, created_at,
\* keep_alive or session_id after create_operation; and resolved_at, result
\* and error, once complete_operation or fail_operation has set them, are
\* never changed again.
IdentityFrozen ==
    [](KeyedByToken) /\ [][FieldsFrozen]_vars

\* a record was completed at an earlier clock value: a second
\* complete_operation or a fail_operation now is refused and its resolved_at
\* and result stay
IdentityFrozenWitness ==
    \E token \in DOMAIN ops :
        /\ ops[token].status = "completed"
        /\ ops[token].resolved_at # None
        /\ ops[token].resolved_at[1] < now
        /\ complete_operation(ops, now, token, "total3").ops = ops
        /\ fail_operation(ops, now, token, "boom").ops = ops
====
